---- MODULE Spec2Model ----
(***************************************************************************)
(* Playback synchronisation of the Preview component and the crop widget  *)
(* CropTool (src/src/components/Editor/CropTool.tsx).                      *)
(*                                                                         *)
(* Times are integers in tenths of a second: 0.1 s = 1, 0.2 s = 2.         *)
(* Volumes are integers in percent: content.volume 0.5 = 50.               *)
(*                                                                         *)
(* One React reaction is an event handler followed by the render pass that *)
(* runs the effects whose dependencies changed, in declaration order.  The *)
(* handler changes the stored props/state; while the stored values differ  *)
(* from the values of the last render, Render is the only enabled action.  *)
(***************************************************************************)
EXTENDS Integers, Sequences, FiniteSets, TLC

\* ---------------------------------------------------------------- bounds
\* at most this many one-shot blocker timers are pending at once
MaxTimers == 2
\* longest element list drawn for the selector
MaxListLen == 3

\* ------------------------------------------------------ program constants
TickSignificance == 1
DriftTolerance == 2
EndMargin == 1
DefaultVolume == 100

\* ------------------------------------------------------------ input sets
\* clock times the timeline is scrubbed to / players report (tenths of s)
TimeGrid == {0, 1, 2, 3, 40, 60, 99, 100}
Durations == {100}
Volumes == {50, 100}

Video(id, s, e) ==
  [id |-> id, type |-> "video", start |-> s, end |-> e,
   hasVolume |-> FALSE, volume |-> 0, muted |-> FALSE]
Audio(id, s, e, hv, v, m) ==
  [id |-> id, type |-> "audio", start |-> s, end |-> e,
   hasVolume |-> hv, volume |-> v, muted |-> m]
Image(id, s, e) ==
  [id |-> id, type |-> "image", start |-> s, end |-> e,
   hasVolume |-> FALSE, volume |-> 0, muted |-> FALSE]

Text(id, s, e) ==
  [id |-> id, type |-> "text", start |-> s, end |-> e,
   hasVolume |-> FALSE, volume |-> 0, muted |-> FALSE]

\* timelines without a video element (the elements prop)
AudioLists ==
  { << Audio("a1", 0, 50, FALSE, 0, FALSE), Audio("a2", 30, 80, TRUE, 50, TRUE),
       Image("i1", 0, 100) >>,
    << Audio("a2", 30, 80, TRUE, 50, TRUE) >>,
    << Image("i1", 0, 100) >> }

\* timelines without an audio element
VideoLists ==
  { << Video("v1", 0, 100) >>,
    << Image("i1", 0, 100), Video("v2", 40, 100), Video("v1", 3, 100) >>,
    << Image("i1", 0, 100) >> }

\* every list of at most MaxListLen elements of ElementPool with distinct ids
ElementPool ==
  { Video("v1", 0, 100), Video("v2", 40, 100),
    Audio("a1", 0, 50, FALSE, 0, FALSE), Audio("a2", 30, 80, TRUE, 50, TRUE),
    Image("i1", 0, 100) }

PoolLists ==
  { l \in UNION { [1..n -> ElementPool] : n \in 0..MaxListLen } :
      \A i, j \in 1..Len(l) : i # j => l[i].id # l[j].id }

ElementIds == {"v1", "v2", "a1", "a2", "i1", "t1"}
PlayStates == {"paused", "starting", "playing", "failed"}

VARIABLES
  mounted,        \* the Preview component is mounted
  elements,       \* prop elements
  currentTime,    \* prop currentTime (Timeline Clock)
  duration,       \* prop duration
  isPlaying,      \* prop isPlaying (Timeline Clock)
  volume,         \* state volume
  isMuted,        \* state isMuted
  videoEnded,     \* state videoEnded
  isBuffering,    \* state isBuffering
  cbDirty,        \* the parent passed new onTimeUpdate/onPause identities
  snap,           \* the values the last render pass saw (effect dependencies)
  audioRefs,      \* audioRefs.current: element id -> audio player
  activeRef,      \* activeAudioElementsRef.current
  lastTimeRef,    \* lastTimeRef.current
  blocker,        \* timeUpdateBlocker.current
  timers,         \* pending setTimeout(... , 50) callbacks
  videoElement,   \* id of the element the <video> node shows, or "none"
  listeners,      \* the four listeners are registered on the current node
  vplayer,        \* the physical video player: status, time, muted, volume
  sinceWrite,     \* history: kind of the most recent forced write < 50 ms ago
  calls,          \* history: clock requests issued in the current reaction
  vwrites,        \* history: writes of the video player's time in this pass
  audioOps,       \* history: what the last pass did to the audio players
  selectedElementId,   \* CropTool prop selectedElementId, or "none" for null
  contentCrop,         \* content.crop of the elements that carry one
  cropX,               \* CropTool state cropX
  cropY,               \* CropTool state cropY
  cropWidth,           \* CropTool state cropWidth
  cropHeight,          \* CropTool state cropHeight
  previewCrop,         \* CropTool state previewCrop
  selectedAspectRatio, \* CropTool state selectedAspectRatio
  pending,             \* the armed debounce timer and what its callback captured
  applied,             \* history: onCropApply requests of the current reaction
  edited               \* history: a crop handler ran since the last selection change

previewVars == << mounted, elements, currentTime, duration, isPlaying, volume,
                  isMuted, videoEnded, isBuffering, cbDirty, snap, audioRefs,
                  activeRef, lastTimeRef, blocker, timers, videoElement,
                  listeners, vplayer, sinceWrite, calls, vwrites, audioOps >>

cropVars == << selectedElementId, contentCrop, cropX, cropY, cropWidth,
               cropHeight, previewCrop, selectedAspectRatio, pending, applied,
               edited >>

vars == << previewVars, cropVars >>

Max(a, b) == IF a >= b THEN a ELSE b
Abs(a) == IF a >= 0 THEN a ELSE 0 - a

NoCalls == [pause |-> 0, play |-> 0, restart |-> 0, tu |-> 0]

\* ------------------------------------------------------------ Timeline Clock
\* The clock is owned by the parent; it serves the engine's requests through
\* its mutation entry points seek(time), pause, play and restart.
ClockSeek(t) == t
ClockPause == FALSE
ClockPlaying == TRUE
ClockRestart == 0

\* -------------------------------------------------- Active-Element Selector
InWindow(el, t) == t >= el.start /\ t <= el.end

\* elements.filter(el => el.type === "audio" && ...)
ActiveAudioElements(els, t) ==
  SelectSeq(els, LAMBDA el : el.type = "audio" /\ InWindow(el, t))

\* elements.find(el => el.type === "video" && ...): index of the match, 0 = none
RECURSIVE FindVideoFrom(_, _, _)
FindVideoFrom(els, t, i) ==
  IF i > Len(els) THEN 0
  ELSE IF els[i].type = "video" /\ InWindow(els[i], t) THEN i
  ELSE FindVideoFrom(els, t, i + 1)

\* mutant: the last matching video instead of the first
FindVideoLast(els, t) ==
  LET hits == { i \in 1..Len(els) :
                  els[i].type = "video" /\ InWindow(els[i], t) }
  IN  IF hits = {} THEN 0 ELSE CHOOSE i \in hits : \A j \in hits : j <= i

FindVideo(els, t) == FindVideoFrom(els, t, 1)

SeqIds(s) == {s[k].id : k \in 1..Len(s)}
ElementOf(s, id) == s[CHOOSE k \in 1..Len(s) : s[k].id = id]

\* ------------------------------------------------------ Audio Track Manager
\* audioElement.play(): the player leaves the paused state, its promise is pending
PlayStatus(st) == IF st = "playing" THEN "playing" ELSE "starting"

\* mutant: a new session is never started at creation
NewSessionPaused(el, t, vol, playing) ==
  [status |-> "paused",
   time   |-> Max(0, t - el.start),
   volume |-> IF el.hasVolume THEN el.volume ELSE vol,
   muted  |-> FALSE]

\* mutant: a new session always starts at the beginning of its clip
NewSessionAtZero(el, t, vol, playing) ==
  [status |-> IF playing THEN PlayStatus("paused") ELSE "paused",
   time   |-> 0,
   volume |-> IF el.hasVolume THEN el.volume ELSE vol,
   muted  |-> FALSE]

\* new Audio(src) ... audioRefs.current[audio.id] = audioElement; play if isPlaying
NewSession(el, t, vol, playing) ==
  [status |-> IF playing THEN PlayStatus("paused") ELSE "paused",
   time   |-> Max(0, t - el.start),
   volume |-> IF el.hasVolume THEN el.volume ELSE vol,
   muted  |-> FALSE]

\* mutant: a player is constructed for every active element on every run
CreateSessionsAlways(refs, active, t, vol, playing) ==
  [id \in (DOMAIN refs) \cup SeqIds(active) |->
     IF id \in SeqIds(active)
     THEN NewSession(ElementOf(active, id), t, vol, playing)
     ELSE refs[id]]

\* activeAudioElements.forEach(audio => { if (!audioRefs.current[audio.id]) ... })
CreateSessions(refs, active, t, vol, playing) ==
  [id \in (DOMAIN refs) \cup SeqIds(active) |->
     IF id \in DOMAIN refs THEN refs[id]
     ELSE NewSession(ElementOf(active, id), t, vol, playing)]

\* mutant: sessions of elements that are no longer active are kept
CleanupSessionsNone(refs, active) == refs

\* Object.keys(audioRefs.current).forEach(id => { if (!active.some(...)) delete })
CleanupSessions(refs, active) ==
  [id \in {i \in DOMAIN refs : i \in SeqIds(active)} |-> refs[id]]

\* the elements the creation loop constructs a player for
CreatedIds(refs, active) == SeqIds(active) \ (DOMAIN refs)

\* the sessions the cleanup loop pauses and deletes
DestroyedIds(refs, active) == (DOMAIN refs) \ SeqIds(active)

\* the sessions whose player the time synchronisation effect seeks
SeekedIds(refs, active, t, last) ==
  IF Abs(t - last) > TickSignificance
  THEN { id \in (DOMAIN refs) \cap SeqIds(active) :
           Abs(refs[id].time - Max(0, t - ElementOf(active, id).start))
             > DriftTolerance }
  ELSE {}

\* the sessions the transport effect calls play() or pause() on
TransportIds(refs, active) == (DOMAIN refs) \cap SeqIds(active)

NoAudioOps ==
  [created |-> {}, destroyed |-> {}, seeked |-> {}, played |-> {},
   paused |-> {}]

\* mutant: drifted players are seeked on every tick, significant or not
SyncAudioTimeEveryTick(refs, active, t, last) ==
  [id \in DOMAIN refs |->
     IF id \in SeqIds(active)
        /\ Abs(refs[id].time - Max(0, t - ElementOf(active, id).start))
             > DriftTolerance
     THEN [refs[id] EXCEPT
             !.time = Max(0, t - ElementOf(active, id).start)]
     ELSE refs[id]]

\* the audio time synchronisation effect
SyncAudioTime(refs, active, t, last) ==
  IF Abs(t - last) > TickSignificance
  THEN [id \in DOMAIN refs |->
          IF id \in SeqIds(active)
             /\ Abs(refs[id].time - Max(0, t - ElementOf(active, id).start))
                  > DriftTolerance
          THEN [refs[id] EXCEPT
                  !.time = Max(0, t - ElementOf(active, id).start)]
          ELSE refs[id]]
  ELSE refs

FinalVolume(el, vol) ==
  ((IF el.hasVolume THEN el.volume ELSE 100) * vol) \div 100
FinalMuted(el, m) == m \/ el.muted

\* the "Control audio playback with isPlaying state" effect
AudioTransport(refs, active, playing, m, vol) ==
  [id \in DOMAIN refs |->
     IF id \in SeqIds(active)
     THEN [refs[id] EXCEPT
             !.volume = FinalVolume(ElementOf(active, id), vol),
             !.muted  = FinalMuted(ElementOf(active, id), m),
             !.status = IF playing THEN PlayStatus(@) ELSE "paused"]
     ELSE refs[id]]

\* the "Apply volume changes to all audio elements" effect
AudioVolume(refs, active, m, vol) ==
  [id \in DOMAIN refs |->
     IF id \in SeqIds(active)
     THEN [refs[id] EXCEPT
             !.volume = FinalVolume(ElementOf(active, id), vol),
             !.muted  = FinalMuted(ElementOf(active, id), m)]
     ELSE refs[id]]

\* ------------------------------------------------------ Video Playback Binder
FreshPlayer == [status |-> "paused", time |-> 0, muted |-> FALSE, volume |-> 100]

\* The state the video effects read and write, threaded through them in order:
\* player, blocker, pending timers, stored videoEnded, stored currentTime,
\* the requests issued, and the history of forced writes.
VideoCtx(p, b, tm, en, ct, c, w, sw) ==
  [player |-> p, blocker |-> b, timers |-> tm, ended |-> en, clock |-> ct,
   calls |-> c, writes |-> w, since |-> sw]

\* onTimeUpdate(t) as the Timeline Clock serves it: seek(t)
OnTimeUpdate(v, t) ==
  [v EXCEPT !.calls = [@ EXCEPT !.tu = @ + 1], !.clock = ClockSeek(t)]

\* if (videoEnded) { setVideoEnded(false); if (currentTime >= duration - 0.1) {...} }
ImplicitRestart(v, t, dur) ==
  IF t >= dur - EndMargin
  THEN [OnTimeUpdate(v, 0) EXCEPT
          !.player = [@ EXCEPT !.time = 0],
          !.blocker = FALSE,
          !.writes = @ + 1,
          !.since = "untimed",
          !.ended = FALSE]
  ELSE [v EXCEPT !.ended = FALSE]

\* the "Improved play/pause handling" effect; ended is the rendered videoEnded
PlayPauseEffect(v, playing, ended, t, dur, m) ==
  IF playing
  THEN LET v1 == IF ended THEN ImplicitRestart(v, t, dur) ELSE v
       IN [v1 EXCEPT !.player = [@ EXCEPT !.muted = m,
                                          !.status = PlayStatus(@)]]
  ELSE [v EXCEPT !.player = [@ EXCEPT !.status = "paused"]]

\* mutant: the player's time is written on every clock change
TimeSyncAlways(v, t) ==
  [v EXCEPT !.blocker = TRUE,
            !.player = [@ EXCEPT !.time = t],
            !.timers = @ + 1,
            !.writes = @ + 1,
            !.since = "timed"]

\* the "Optimized time synchronization" effect
TimeSyncEffect(v, t) ==
  IF Abs(v.player.time - t) > DriftTolerance
  THEN [v EXCEPT !.blocker = TRUE,
                 !.player = [@ EXCEPT !.time = t],
                 !.timers = @ + 1,
                 !.writes = @ + 1,
                 !.since = "timed"]
  ELSE v

\* the "Apply volume change to video" effect
VideoVolumeEffect(v, vol, m) ==
  [v EXCEPT !.player = [@ EXCEPT !.volume = vol, !.muted = m]]

\* the "Handle video element changes" effect: cleanup of the previous run, then
\* registration on videoRef.current if there is one
ListenerEffect(node) == node

\* ------------------------------------------------------------- render pass
Snapshot ==
  [elements |-> elements, currentTime |-> currentTime, isPlaying |-> isPlaying,
   volume |-> volume, isMuted |-> isMuted, videoEnded |-> videoEnded]

Dirty == mounted /\ (cbDirty \/ snap # Snapshot)

\* One render of Preview followed by its effects in declaration order.
\* first: the mount render (every effect runs); cb: new callback identities.
RenderPass(first, cb) ==
  LET chEl    == first \/ elements # snap.elements
      chT     == first \/ currentTime # snap.currentTime
      chP     == first \/ isPlaying # snap.isPlaying
      chVol   == first \/ volume # snap.volume
      chMute  == first \/ isMuted # snap.isMuted
      chEnded == first \/ videoEnded # snap.videoEnded
      chCb    == first \/ cb
      found   == FindVideo(elements, currentTime)
      node    == found # 0
      kept    == node /\ videoElement # "none"
      \* audio effects
      runRec  == chEl \/ chT \/ chP \/ chVol
      active  == IF runRec THEN ActiveAudioElements(elements, currentTime)
                 ELSE activeRef
      refs0   == IF runRec
                 THEN CreateSessions(audioRefs, active, currentTime, volume,
                                     isPlaying)
                 ELSE audioRefs
      refs1   == IF runRec THEN CleanupSessions(refs0, active) ELSE refs0
      refs2   == IF chT
                 THEN SyncAudioTime(refs1, active, currentTime, lastTimeRef)
                 ELSE refs1
      refs3   == IF chP \/ chMute \/ chVol
                 THEN AudioTransport(refs2, active, isPlaying, isMuted, volume)
                 ELSE refs2
      refs4   == IF chVol \/ chMute
                 THEN AudioVolume(refs3, active, isMuted, volume)
                 ELSE refs3
      tports  == IF chP \/ chMute \/ chVol
                 THEN TransportIds(refs2, active) ELSE {}
      ops     == [created   |-> IF runRec THEN CreatedIds(audioRefs, active)
                                ELSE {},
                  destroyed |-> IF runRec THEN DestroyedIds(refs0, active)
                                ELSE {},
                  seeked    |-> IF chT
                                THEN SeekedIds(refs1, active, currentTime,
                                               lastTimeRef)
                                ELSE {},
                  played    |-> IF isPlaying
                                THEN (IF runRec
                                      THEN CreatedIds(audioRefs, active)
                                      ELSE {}) \cup tports
                                ELSE {},
                  paused    |-> (IF runRec THEN DestroyedIds(refs0, active)
                                 ELSE {})
                                \cup (IF isPlaying THEN {} ELSE tports)]
      \* video effects (each returns at once when videoRef.current is null)
      v0      == VideoCtx(IF kept THEN vplayer ELSE FreshPlayer, blocker,
                          timers, videoEnded, currentTime, calls, 0,
                          sinceWrite)
      v1      == IF node /\ (chP \/ chCb \/ chEnded \/ chT \/ chMute)
                 THEN PlayPauseEffect(v0, isPlaying, videoEnded, currentTime,
                                      duration, isMuted)
                 ELSE v0
      v2      == IF node /\ chT THEN TimeSyncEffect(v1, currentTime) ELSE v1
      v3      == IF node /\ (chVol \/ chMute)
                 THEN VideoVolumeEffect(v2, volume, isMuted)
                 ELSE v2
  IN  /\ mounted' = TRUE
      /\ snap' = Snapshot
      /\ cbDirty' = FALSE
      /\ activeRef' = active
      /\ audioRefs' = refs4
      /\ audioOps' = ops
      /\ lastTimeRef' = IF chT THEN currentTime ELSE lastTimeRef
      /\ videoElement' = IF node THEN elements[found].id ELSE "none"
      /\ listeners' = IF chCb THEN ListenerEffect(node)
                      ELSE (kept /\ listeners)
      /\ vplayer' = v3.player
      /\ blocker' = v3.blocker
      /\ timers' = v3.timers
      /\ videoEnded' = v3.ended
      /\ currentTime' = v3.clock
      /\ calls' = v3.calls
      /\ vwrites' = v3.writes
      /\ sinceWrite' = v3.since
      /\ UNCHANGED << cropVars,
                      elements, duration, isPlaying, volume, isMuted,
                      isBuffering >>

\* ---------------------------------------------------------- initial state
\* the component state of a Preview instance before its first render
InitWith(lists) ==
  /\ mounted = FALSE
  /\ elements \in lists
  /\ currentTime \in {0, 40}
  /\ duration \in Durations
  /\ isPlaying = FALSE
  /\ volume = DefaultVolume
  /\ isMuted = FALSE
  /\ videoEnded = FALSE
  /\ isBuffering = FALSE
  /\ cbDirty = FALSE
  /\ snap = Snapshot
  /\ audioRefs = << >>
  /\ activeRef = << >>
  /\ lastTimeRef = currentTime
  /\ blocker = FALSE
  /\ timers = 0
  /\ videoElement = "none"
  /\ listeners = FALSE
  /\ vplayer = FreshPlayer
  /\ sinceWrite = "none"
  /\ calls = NoCalls
  /\ vwrites = 0
  /\ audioOps = NoAudioOps

Idle == mounted /\ ~Dirty

\* ------------------------------------------------------------ render steps
Mount == ~mounted /\ RenderPass(TRUE, TRUE)

\* a re-render: the parent may pass new callback identities whenever it
\* re-rendered itself (a prop changed), and does so after CallbacksChange
Render ==
  /\ Dirty
  /\ \E cb \in BOOLEAN :
       /\ cbDirty => cb
       /\ cb => (cbDirty \/ elements # snap.elements
                  \/ currentTime # snap.currentTime
                  \/ isPlaying # snap.isPlaying)
       /\ RenderPass(FALSE, cb)

\* the cleanup of the "Cleanup audio elements on unmount" effect; the instance
\* is gone and a later Mount constructs a new one
Unmount ==
  /\ Idle
  /\ mounted' = FALSE
  /\ audioRefs' = << >>
  /\ activeRef' = << >>
  /\ volume' = DefaultVolume
  /\ isMuted' = FALSE
  /\ videoEnded' = FALSE
  /\ isBuffering' = FALSE
  /\ cbDirty' = FALSE
  /\ lastTimeRef' = currentTime
  /\ blocker' = FALSE
  /\ timers' = 0
  /\ videoElement' = "none"
  /\ listeners' = FALSE
  /\ vplayer' = FreshPlayer
  /\ sinceWrite' = "none"
  /\ calls' = NoCalls
  /\ vwrites' = 0
  /\ audioOps' = [NoAudioOps EXCEPT !.paused = DOMAIN audioRefs]
  /\ snap' = [snap EXCEPT !.volume = DefaultVolume, !.isMuted = FALSE,
                          !.videoEnded = FALSE]
  /\ UNCHANGED << cropVars,
                  elements, currentTime, duration, isPlaying >>

\* -------------------------------------------------- user and clock requests
\* the seek bar (onChange) and the End button: onTimeUpdate(value)
Scrub(t) ==
  /\ Idle
  /\ t <= duration /\ t # currentTime
  /\ timers < MaxTimers
  /\ currentTime' = ClockSeek(t)
  /\ calls' = [NoCalls EXCEPT !.tu = 1]
  /\ UNCHANGED << cropVars,
                  mounted, elements, duration, isPlaying, volume, isMuted,
                  videoEnded, isBuffering, cbDirty, snap, audioRefs,
                  activeRef, lastTimeRef, blocker, timers, videoElement,
                  listeners, vplayer, sinceWrite, vwrites, audioOps >>

\* the Timeline Clock starts playing without the engine's play button
ClockPlay ==
  /\ Idle
  /\ ~isPlaying
  /\ isPlaying' = ClockPlaying
  /\ calls' = NoCalls
  /\ UNCHANGED << cropVars,
                  mounted, elements, currentTime, duration, volume, isMuted,
                  videoEnded, isBuffering, cbDirty, snap, audioRefs,
                  activeRef, lastTimeRef, blocker, timers, videoElement,
                  listeners, vplayer, sinceWrite, vwrites, audioOps >>

\* handleRestart: setVideoEnded(false); onRestart()
RestartRequest(c) == [c EXCEPT !.restart = @ + 1]

HandleRestart ==
  /\ Idle
  /\ timers < MaxTimers
  /\ videoEnded' = FALSE
  /\ calls' = RestartRequest(NoCalls)
  /\ currentTime' = ClockRestart
  /\ UNCHANGED << cropVars,
                  mounted, elements, duration, isPlaying, volume, isMuted,
                  isBuffering, cbDirty, snap, audioRefs, activeRef,
                  lastTimeRef, blocker, timers, videoElement, listeners,
                  vplayer, sinceWrite, vwrites, audioOps >>

\* handlePlay: the play button, shown while isPlaying is false
NeedsRestart(ended, t, dur) == ended \/ t >= dur - EndMargin

HandlePlay ==
  /\ Idle
  /\ ~isPlaying
  /\ timers < MaxTimers
  /\ LET r == NeedsRestart(videoEnded, currentTime, duration)
         c == IF r THEN RestartRequest(NoCalls) ELSE NoCalls
     IN  /\ videoEnded' = IF r THEN FALSE ELSE videoEnded
         /\ currentTime' = IF r THEN ClockRestart ELSE currentTime
         /\ calls' = [c EXCEPT !.play = @ + 1]
  /\ isPlaying' = ClockPlaying
  /\ UNCHANGED << cropVars,
                  mounted, elements, duration, volume, isMuted, isBuffering,
                  cbDirty, snap, audioRefs, activeRef, lastTimeRef, blocker,
                  timers, videoElement, listeners, vplayer, sinceWrite, vwrites, audioOps >>

\* the pause button, shown while isPlaying is true: onPause
Pause ==
  /\ Idle
  /\ isPlaying
  /\ isPlaying' = ClockPause
  /\ calls' = [NoCalls EXCEPT !.pause = 1]
  /\ UNCHANGED << cropVars,
                  mounted, elements, currentTime, duration, volume, isMuted,
                  videoEnded, isBuffering, cbDirty, snap, audioRefs,
                  activeRef, lastTimeRef, blocker, timers, videoElement,
                  listeners, vplayer, sinceWrite, vwrites, audioOps >>

\* the volume button: setIsMuted(!isMuted)
ToggleMute ==
  /\ Idle
  /\ isMuted' = ~isMuted
  /\ calls' = NoCalls
  /\ UNCHANGED << cropVars,
                  mounted, elements, currentTime, duration, isPlaying, volume,
                  videoEnded, isBuffering, cbDirty, snap, audioRefs,
                  activeRef, lastTimeRef, blocker, timers, videoElement,
                  listeners, vplayer, sinceWrite, vwrites, audioOps >>

\* the volume slider: setVolume(value[0])
SetVolume(v) ==
  /\ Idle
  /\ v # volume
  /\ volume' = v
  /\ calls' = NoCalls
  /\ UNCHANGED << cropVars,
                  mounted, elements, currentTime, duration, isPlaying, isMuted,
                  videoEnded, isBuffering, cbDirty, snap, audioRefs,
                  activeRef, lastTimeRef, blocker, timers, videoElement,
                  listeners, vplayer, sinceWrite, vwrites, audioOps >>

\* the document layer passes another element list
SetElements(l) ==
  /\ Idle
  /\ l # elements
  /\ elements' = l
  /\ calls' = NoCalls
  /\ UNCHANGED << cropVars,
                  mounted, currentTime, duration, isPlaying, volume, isMuted,
                  videoEnded, isBuffering, cbDirty, snap, audioRefs,
                  activeRef, lastTimeRef, blocker, timers, videoElement,
                  listeners, vplayer, sinceWrite, vwrites, audioOps >>

\* the parent re-renders with new onTimeUpdate / onPause function identities
CallbacksChange ==
  /\ Idle
  /\ cbDirty' = TRUE
  /\ calls' = NoCalls
  /\ UNCHANGED << cropVars,
                  mounted, elements, currentTime, duration, isPlaying, volume,
                  isMuted, videoEnded, isBuffering, snap, audioRefs,
                  activeRef, lastTimeRef, blocker, timers, videoElement,
                  listeners, vplayer, sinceWrite, vwrites, audioOps >>

\* ------------------------------------------------ physical player events
\* handleTimeUpdate: if (timeUpdateBlocker.current) return; onTimeUpdate(...)
HandleTimeUpdate(b, c) ==
  IF b THEN c ELSE [c EXCEPT !.tu = @ + 1]

\* the <video> node dispatches timeupdate
TimeUpdateEvent ==
  /\ Idle
  /\ videoElement # "none"
  /\ calls' = IF listeners
              THEN HandleTimeUpdate(blocker, NoCalls)
              ELSE NoCalls
  /\ currentTime' = IF calls'.tu > 0 THEN ClockSeek(vplayer.time)
                  ELSE currentTime
  /\ UNCHANGED << cropVars,
                  mounted, elements, duration, isPlaying, volume, isMuted,
                  videoEnded, isBuffering, cbDirty, snap, audioRefs,
                  activeRef, lastTimeRef, blocker, timers, videoElement,
                  listeners, vplayer, sinceWrite, vwrites, audioOps >>

\* handleVideoEnd: setVideoEnded(true); onPause()
HandleVideoEnd(c) == [c EXCEPT !.pause = @ + 1]

\* the <video> node dispatches ended
VideoEndedEvent ==
  /\ Idle
  /\ videoElement # "none"
  /\ calls' = IF listeners THEN HandleVideoEnd(NoCalls) ELSE NoCalls
  /\ videoEnded' = IF listeners THEN TRUE ELSE videoEnded
  /\ isPlaying' = IF calls'.pause > 0 THEN ClockPause ELSE isPlaying
  /\ UNCHANGED << cropVars,
                  mounted, elements, currentTime, duration, volume, isMuted,
                  isBuffering, cbDirty, snap, audioRefs, activeRef,
                  lastTimeRef, blocker, timers, videoElement, listeners,
                  vplayer, sinceWrite, vwrites, audioOps >>

\* handleWaiting: setIsBuffering(true)
WaitingEvent ==
  /\ Idle
  /\ videoElement # "none"
  /\ isBuffering' = IF listeners THEN TRUE ELSE isBuffering
  /\ calls' = NoCalls
  /\ UNCHANGED << cropVars,
                  mounted, elements, currentTime, duration, isPlaying, volume,
                  isMuted, videoEnded, cbDirty, snap, audioRefs, activeRef,
                  lastTimeRef, blocker, timers, videoElement, listeners,
                  vplayer, sinceWrite, vwrites, audioOps >>

\* handlePlaying: setIsBuffering(false)
PlayingEvent ==
  /\ Idle
  /\ videoElement # "none"
  /\ isBuffering' = IF listeners THEN FALSE ELSE isBuffering
  /\ calls' = NoCalls
  /\ UNCHANGED << cropVars,
                  mounted, elements, currentTime, duration, isPlaying, volume,
                  isMuted, videoEnded, cbDirty, snap, audioRefs, activeRef,
                  lastTimeRef, blocker, timers, videoElement, listeners,
                  vplayer, sinceWrite, vwrites, audioOps >>

\* Playback goes on until the position that belongs to clock time g: every
\* player that is playing and is behind that position advances to it
AdvancedTo(t, g) == IF g > t THEN g ELSE t

PlayersAdvance(g) ==
  /\ Idle
  /\ isPlaying
  /\ g > currentTime
  /\ vplayer' = IF videoElement # "none" /\ vplayer.status = "playing"
                THEN [vplayer EXCEPT !.time = AdvancedTo(@, g)]
                ELSE vplayer
  /\ audioRefs' =
       [id \in DOMAIN audioRefs |->
          IF audioRefs[id].status = "playing"
             /\ g <= ElementOf(activeRef, id).end
          THEN [audioRefs[id] EXCEPT
                  !.time = AdvancedTo(@, g - ElementOf(activeRef, id).start)]
          ELSE audioRefs[id]]
  /\ (vplayer' # vplayer \/ audioRefs' # audioRefs)
  /\ calls' = NoCalls
  /\ UNCHANGED << cropVars,
                  mounted, elements, currentTime, duration, isPlaying, volume,
                  isMuted, videoEnded, isBuffering, cbDirty, snap, activeRef,
                  lastTimeRef, blocker, timers, videoElement, listeners,
                  sinceWrite, vwrites, audioOps >>

\* videoElement.play() resolves
VideoStarted ==
  /\ Idle
  /\ videoElement # "none"
  /\ vplayer.status = "starting"
  /\ vplayer' = [vplayer EXCEPT !.status = "playing"]
  /\ calls' = NoCalls
  /\ UNCHANGED << cropVars,
                  mounted, elements, currentTime, duration, isPlaying, volume,
                  isMuted, videoEnded, isBuffering, cbDirty, snap, audioRefs,
                  activeRef, lastTimeRef, blocker, timers, videoElement,
                  listeners, sinceWrite, vwrites, audioOps >>

\* playPromise.catch of the video: console.error(...); onPause()
VideoPlayCatch(c) == [c EXCEPT !.pause = @ + 1]

\* videoElement.play() rejects
VideoStartFailed ==
  /\ Idle
  /\ videoElement # "none"
  /\ vplayer.status = "starting"
  /\ vplayer' = [vplayer EXCEPT !.status = "failed"]
  /\ calls' = VideoPlayCatch(NoCalls)
  /\ isPlaying' = IF calls'.pause > 0 THEN ClockPause ELSE isPlaying
  /\ UNCHANGED << cropVars,
                  mounted, elements, currentTime, duration, volume, isMuted,
                  videoEnded, isBuffering, cbDirty, snap, audioRefs,
                  activeRef, lastTimeRef, blocker, timers, videoElement,
                  listeners, sinceWrite, vwrites, audioOps >>

\* audioElement.play() resolves
AudioStarted(id) ==
  /\ Idle
  /\ id \in DOMAIN audioRefs
  /\ audioRefs[id].status = "starting"
  /\ audioRefs' = [audioRefs EXCEPT ![id].status = "playing"]
  /\ calls' = NoCalls
  /\ UNCHANGED << cropVars,
                  mounted, elements, currentTime, duration, isPlaying, volume,
                  isMuted, videoEnded, isBuffering, cbDirty, snap, activeRef,
                  lastTimeRef, blocker, timers, videoElement, listeners,
                  vplayer, sinceWrite, vwrites, audioOps >>

\* mutant: the audio catch handler pauses the clock as the video one does
AudioPlayCatchPauses(c) == [c EXCEPT !.pause = @ + 1]

\* playPromise.catch of an audio session: console.error(...) only
AudioPlayCatch(c) == c

\* audioElement.play() rejects
AudioStartFailed(id) ==
  /\ Idle
  /\ id \in DOMAIN audioRefs
  /\ audioRefs[id].status = "starting"
  /\ audioRefs' = [audioRefs EXCEPT ![id].status = "failed"]
  /\ calls' = AudioPlayCatch(NoCalls)
  /\ isPlaying' = IF calls'.pause > 0 THEN ClockPause ELSE isPlaying
  /\ UNCHANGED << cropVars,
                  mounted, elements, currentTime, duration, volume, isMuted,
                  videoEnded, isBuffering, cbDirty, snap, activeRef,
                  lastTimeRef, blocker, timers, videoElement, listeners,
                  vplayer, sinceWrite, vwrites, audioOps >>

\* setTimeout(() => { timeUpdateBlocker.current = false }, 50) expires; the
\* timers expire in the order they were set, so the last pending one belongs
\* to the most recent drift correction
TimerFires ==
  /\ Idle
  /\ timers > 0
  /\ blocker' = FALSE
  /\ timers' = timers - 1
  /\ sinceWrite' = IF sinceWrite = "timed" /\ timers = 1 THEN "none"
                   ELSE sinceWrite
  /\ calls' = NoCalls
  /\ UNCHANGED << cropVars,
                  mounted, elements, currentTime, duration, isPlaying, volume,
                  isMuted, videoEnded, isBuffering, cbDirty, snap, audioRefs,
                  activeRef, lastTimeRef, videoElement, listeners, vplayer,
                  vwrites, audioOps >>

\* 50 ms have passed since an implicit restart wrote the player's time
WindowElapses ==
  /\ Idle
  /\ sinceWrite = "untimed"
  /\ timers = 0
  /\ sinceWrite' = "none"
  /\ calls' = NoCalls
  /\ UNCHANGED << cropVars,
                  mounted, elements, currentTime, duration, isPlaying, volume,
                  isMuted, videoEnded, isBuffering, cbDirty, snap, audioRefs,
                  activeRef, lastTimeRef, blocker, timers, videoElement,
                  listeners, vplayer, vwrites, audioOps >>

\* ================================================================ CropTool
\* The crop widget (first half of the file).  Its numbers are JavaScript
\* doubles; they are modelled as exact fractions n/d in lowest terms, so a
\* derived dimension such as 80 / (16/9) is the fraction 45/1.
RECURSIVE Gcd(_, _)
Gcd(a, b) == IF b = 0 THEN a ELSE Gcd(b, a % b)

Frac(n, d) == [n |-> n \div Gcd(n, d), d |-> d \div Gcd(n, d)]
Whole(k) == [n |-> k, d |-> 1]
FracLeq(a, b) == a.n * b.d <= b.n * a.d
FracSum(a, b) == Frac(a.n * b.d + b.n * a.d, a.d * b.d)

\* aspectRatioOptions: id -> value; freeform has value null
RatioIds ==
  {"freeform", "1:1", "16:9", "9:16", "5:4", "4:5", "4:3", "3:4", "3:2"}

RatioValue(id) ==
  CASE id = "1:1"  -> Frac(1, 1)
    [] id = "16:9" -> Frac(16, 9)
    [] id = "9:16" -> Frac(9, 16)
    [] id = "5:4"  -> Frac(5, 4)
    [] id = "4:5"  -> Frac(4, 5)
    [] id = "4:3"  -> Frac(4, 3)
    [] id = "3:4"  -> Frac(3, 4)
    [] id = "3:2"  -> Frac(3, 2)

\* value / ratio.value and value * ratio.value
DivByRatio(v, id) == Frac(v.n * RatioValue(id).d, v.d * RatioValue(id).n)
TimesRatio(v, id) == Frac(v.n * RatioValue(id).n, v.d * RatioValue(id).d)

CropRect(x, y, w, h) == [x |-> x, y |-> y, width |-> w, height |-> h]
DefaultCrop == CropRect(Whole(0), Whole(0), Whole(100), Whole(100))
CurrentCrop == CropRect(cropX, cropY, cropWidth, cropHeight)

\* const selectedElement = selectedElementId ? elements.find(...) : null
SelectedType(els, id) ==
  IF id \in SeqIds(els) THEN ElementOf(els, id).type ELSE "none"

Croppable(t) == t \in {"video", "image"}

\* the sliders are rendered only for a selected video or image
PanelShown == Croppable(SelectedType(elements, selectedElementId))

\* a Slider hands onValueChange a value of its [min, max] range
SliderValue(req, lo, hi) == IF req < lo THEN lo ELSE IF req > hi THEN hi ELSE req

\* the document layer serves onCropApply(id, crop): the element gets the crop
CropStored(cc, id, crop) ==
  [i \in (DOMAIN cc) \cup {id} |-> IF i = id THEN crop ELSE cc[i]]

\* the "Reset crop values when selected element changes" effect: the crop
\* state it sets for the selected element
InitialCrop(els, cc, id, cur) ==
  IF Croppable(SelectedType(els, id))
  THEN IF id \in DOMAIN cc THEN cc[id] ELSE DefaultCrop
  ELSE cur

\* ... and the ratio selection it sets
InitialRatio(els, id, cur) ==
  IF Croppable(SelectedType(els, id)) THEN "freeform" ELSE cur

\* the "Debounced crop application" effect: when one of its dependencies
\* changed the armed timer is cleared and a new one captures id and crop
Armed(old, changed, id, crop) ==
  IF changed THEN << [id |-> id, crop |-> crop] >> ELSE old

\* The renders that follow a handler, up to the one that changes nothing: the
\* crop state is crop, the preview effect copies it, the debounce effect
\* re-arms the timer if crop, the selected id or onCropApply changed.
\* fired: the timer that was pending has just run.
CropSettle(crop, id, cb, fired) ==
  /\ cropX' = crop.x
  /\ cropY' = crop.y
  /\ cropWidth' = crop.width
  /\ cropHeight' = crop.height
  /\ previewCrop' = crop
  /\ selectedElementId' = id
  /\ pending' = Armed(IF fired THEN << >> ELSE pending,
                      crop # CurrentCrop \/ id # selectedElementId \/ cb,
                      id, crop)

\* the state of a CropTool instance after its mount with nothing selected
CropInit ==
  /\ selectedElementId = "none"
  /\ contentCrop = << >>
  /\ cropX = Whole(0)
  /\ cropY = Whole(0)
  /\ cropWidth = Whole(100)
  /\ cropHeight = Whole(100)
  /\ previewCrop = DefaultCrop
  /\ selectedAspectRatio = "freeform"
  /\ pending = << [id |-> "none", crop |-> DefaultCrop] >>
  /\ applied = << >>
  /\ edited = FALSE

\* the parent selects another element (or none)
SelectElement(id) ==
  /\ id # selectedElementId
  /\ id \in SeqIds(elements) \cup {"none"}
  /\ selectedAspectRatio' = InitialRatio(elements, id, selectedAspectRatio)
  /\ CropSettle(InitialCrop(elements, contentCrop, id, CurrentCrop), id,
                FALSE, FALSE)
  /\ applied' = << >>
  /\ edited' = FALSE
  /\ UNCHANGED << previewVars, contentCrop >>

\* Horizontal Position slider: setCropX(value[0])
SetCropX(req) ==
  /\ PanelShown
  /\ Whole(SliderValue(req, 0, 50)) # cropX
  /\ CropSettle([CurrentCrop EXCEPT !.x = Whole(SliderValue(req, 0, 50))],
                selectedElementId, FALSE, FALSE)
  /\ applied' = << >>
  /\ edited' = TRUE
  /\ UNCHANGED << previewVars, contentCrop, selectedAspectRatio >>

\* Vertical Position slider: setCropY(value[0])
SetCropY(req) ==
  /\ PanelShown
  /\ Whole(SliderValue(req, 0, 50)) # cropY
  /\ CropSettle([CurrentCrop EXCEPT !.y = Whole(SliderValue(req, 0, 50))],
                selectedElementId, FALSE, FALSE)
  /\ applied' = << >>
  /\ edited' = TRUE
  /\ UNCHANGED << previewVars, contentCrop, selectedAspectRatio >>

\* the Width slider's onValueChange
WidthEdit(cur, ratioId, v) ==
  IF ratioId # "freeform"
  THEN [cur EXCEPT !.width = v, !.height = DivByRatio(v, ratioId)]
  ELSE [cur EXCEPT !.width = v]

\* the Height slider's onValueChange
HeightEdit(cur, ratioId, v) ==
  IF ratioId # "freeform"
  THEN [cur EXCEPT !.height = v, !.width = TimesRatio(v, ratioId)]
  ELSE [cur EXCEPT !.height = v]

SetCropWidth(req) ==
  /\ PanelShown
  /\ Whole(SliderValue(req, 20, 100)) # cropWidth
  /\ CropSettle(WidthEdit(CurrentCrop, selectedAspectRatio,
                          Whole(SliderValue(req, 20, 100))),
                selectedElementId, FALSE, FALSE)
  /\ applied' = << >>
  /\ edited' = TRUE
  /\ UNCHANGED << previewVars, contentCrop, selectedAspectRatio >>

SetCropHeight(req) ==
  /\ PanelShown
  /\ Whole(SliderValue(req, 20, 100)) # cropHeight
  /\ CropSettle(HeightEdit(CurrentCrop, selectedAspectRatio,
                           Whole(SliderValue(req, 20, 100))),
                selectedElementId, FALSE, FALSE)
  /\ applied' = << >>
  /\ edited' = TRUE
  /\ UNCHANGED << previewVars, contentCrop, selectedAspectRatio >>

\* handleAspectRatioChange: the crop it sets
AspectRatioCrop(cur, ratioId) ==
  IF ratioId = "freeform" THEN cur
  ELSE IF ~FracLeq(DivByRatio(cur.width, ratioId), Whole(100))
  THEN [cur EXCEPT !.height = Whole(100),
                   !.width = TimesRatio(Whole(100), ratioId)]
  ELSE [cur EXCEPT !.height = DivByRatio(cur.width, ratioId)]

HandleAspectRatioChange(ratioId) ==
  /\ PanelShown
  /\ selectedAspectRatio' = ratioId
  /\ CropSettle(AspectRatioCrop(CurrentCrop, ratioId), selectedElementId,
                FALSE, FALSE)
  /\ applied' = << >>
  /\ edited' = TRUE
  /\ UNCHANGED << previewVars, contentCrop >>

\* handleApplyCrop: the requests it issues for the selected element
ApplyCropRequests(els, id, crop) ==
  IF id = "none" \/ SelectedType(els, id) = "none" THEN << >>
  ELSE IF ~Croppable(SelectedType(els, id)) THEN << >>
  ELSE << [id |-> id, crop |-> crop] >>

\* the crop state and ratio after the parent served the requests reqs: with a
\* new element object (fresh) the selection effect runs again
AfterApply(reqs, fresh, cc, crop) ==
  IF reqs # << >> /\ fresh
  THEN InitialCrop(elements, cc, selectedElementId, crop)
  ELSE crop

RatioAfterApply(reqs, fresh, ratioId) ==
  IF reqs # << >> /\ fresh
  THEN InitialRatio(elements, selectedElementId, ratioId)
  ELSE ratioId

StoredAfter(reqs, cc) ==
  IF reqs = << >> THEN cc ELSE CropStored(cc, reqs[1].id, reqs[1].crop)

\* the Done button
HandleApplyCrop ==
  /\ PanelShown
  /\ \E fresh, cb \in BOOLEAN :
       LET reqs == ApplyCropRequests(elements, selectedElementId, CurrentCrop)
           cc   == StoredAfter(reqs, contentCrop)
       IN  /\ applied' = reqs
           /\ edited' = TRUE
           /\ contentCrop' = cc
           /\ selectedAspectRatio' =
                RatioAfterApply(reqs, fresh, selectedAspectRatio)
           /\ CropSettle(AfterApply(reqs, fresh, cc, CurrentCrop),
                         selectedElementId, cb, FALSE)
  /\ UNCHANGED previewVars

\* handleResetCrop: the requests it issues
ResetCropRequests(id) ==
  IF id # "none" THEN << [id |-> id, crop |-> DefaultCrop] >> ELSE << >>

\* the X button and the Cancel button
HandleResetCrop ==
  /\ PanelShown
  /\ \E fresh, cb \in BOOLEAN :
       LET reqs == ResetCropRequests(selectedElementId)
           cc   == StoredAfter(reqs, contentCrop)
       IN  /\ applied' = reqs
           /\ edited' = TRUE
           /\ contentCrop' = cc
           /\ selectedAspectRatio' = "freeform"
           /\ CropSettle(AfterApply(reqs, fresh, cc, DefaultCrop),
                         selectedElementId, cb, FALSE)
  /\ UNCHANGED previewVars

\* the debounce timer's callback: the requests it issues
DebounceRequests(p) ==
  IF p.id # "none" THEN << [id |-> p.id, crop |-> p.crop] >> ELSE << >>

\* the debounce timer expires 100 ms after it was armed
DebounceFires ==
  /\ pending # << >>
  /\ \E fresh, cb \in BOOLEAN :
       LET reqs == DebounceRequests(pending[1])
           cc   == StoredAfter(reqs, contentCrop)
       IN  /\ (reqs = << >>) => (~fresh /\ ~cb)
           /\ applied' = reqs
           /\ edited' = edited
           /\ contentCrop' = cc
           /\ selectedAspectRatio' =
                RatioAfterApply(reqs, fresh, selectedAspectRatio)
           /\ CropSettle(AfterApply(reqs, fresh, cc, CurrentCrop),
                         selectedElementId, cb, TRUE)
  /\ UNCHANGED previewVars

\* ------------------------------------------------------ specifications
\* the selector on every drawn element list and clock time
InitSelect == InitWith(PoolLists) /\ CropInit

NextSelect ==
  \/ Mount
  \/ Render
  \/ \E t \in TimeGrid : Scrub(t)
  \/ TimerFires

SpecSelect == InitSelect /\ [][NextSelect]_vars

\* the Audio Track Manager on timelines without video
InitAudio == InitWith(AudioLists) /\ CropInit

NextAudio ==
  \/ Mount
  \/ Render
  \/ Unmount
  \/ \E t \in TimeGrid : Scrub(t)
  \/ ClockPlay
  \/ HandlePlay
  \/ Pause
  \/ ToggleMute
  \/ \E v \in Volumes : SetVolume(v)
  \/ \E l \in AudioLists : SetElements(l)
  \/ \E g \in TimeGrid : PlayersAdvance(g)
  \/ \E id \in ElementIds : AudioStarted(id)
  \/ \E id \in ElementIds : AudioStartFailed(id)

SpecAudio == InitAudio /\ [][NextAudio]_vars

\* the Audio Track Manager while the clock is paused and scrubbed
InitScrub == InitWith(AudioLists) /\ CropInit

NextScrub ==
  \/ Mount
  \/ Render
  \/ Unmount
  \/ \E t \in TimeGrid : Scrub(t)
  \/ ToggleMute
  \/ \E v \in Volumes : SetVolume(v)
  \/ \E l \in AudioLists : SetElements(l)

SpecScrub == InitScrub /\ [][NextScrub]_vars

\* the Video Playback Binder on timelines without audio
InitVideo == InitWith(VideoLists) /\ CropInit

NextVideo ==
  \/ Mount
  \/ Render
  \/ \E t \in TimeGrid : Scrub(t)
  \/ ClockPlay
  \/ HandleRestart
  \/ HandlePlay
  \/ Pause
  \/ \E l \in VideoLists : SetElements(l)
  \/ CallbacksChange
  \/ TimeUpdateEvent
  \/ VideoEndedEvent
  \/ WaitingEvent
  \/ PlayingEvent
  \/ \E g \in TimeGrid : PlayersAdvance(g)
  \/ VideoStarted
  \/ VideoStartFailed
  \/ TimerFires
  \/ WindowElapses

SpecVideo == InitVideo /\ [][NextVideo]_vars

\* both binders on one timeline with video and overlapping audio
MixedLists ==
  { << Video("v1", 0, 100), Audio("a1", 0, 50, FALSE, 0, FALSE),
       Audio("a2", 30, 80, TRUE, 50, TRUE) >> }

InitMixed == InitWith(MixedLists) /\ CropInit

NextMixed ==
  \/ Mount
  \/ Render
  \/ \E t \in TimeGrid : Scrub(t)
  \/ ClockPlay
  \/ HandlePlay
  \/ Pause
  \/ \E g \in TimeGrid : PlayersAdvance(g)
  \/ VideoStarted
  \/ VideoStartFailed
  \/ \E id \in ElementIds : AudioStarted(id)
  \/ \E id \in ElementIds : AudioStartFailed(id)
  \/ TimerFires

SpecMixed == InitMixed /\ [][NextMixed]_vars

\* values the sliders are asked for (percent), in and out of their ranges
PositionRequests == {0, 50, 60}
SizeRequests == {10, 20, 50, 80, 100, 150}
EdgeSizeRequests == {20, 100, 150}

\* ratio-locked resizing of one selected video, edits following one another
\* within the debounce delay
RatioLists == { << Video("v1", 0, 100) >> }

InitRatio == InitWith(RatioLists) /\ currentTime = 0 /\ CropInit

NextRatio ==
  \/ \E id \in ElementIds \cup {"none"} : SelectElement(id)
  \/ \E r \in SizeRequests : SetCropWidth(r)
  \/ \E r \in SizeRequests : SetCropHeight(r)
  \/ \E ratioId \in RatioIds : HandleAspectRatioChange(ratioId)

SpecRatio == InitRatio /\ [][NextRatio]_vars

\* every path of the crop widget on one selected video
CropRatioIds == {"freeform", "16:9"}

InitCrop == InitWith(RatioLists) /\ currentTime = 0 /\ CropInit

NextCrop ==
  \/ \E id \in ElementIds \cup {"none"} : SelectElement(id)
  \/ \E r \in PositionRequests : SetCropX(r)
  \/ \E r \in PositionRequests : SetCropY(r)
  \/ \E r \in EdgeSizeRequests : SetCropWidth(r)
  \/ \E r \in EdgeSizeRequests : SetCropHeight(r)
  \/ \E ratioId \in CropRatioIds : HandleAspectRatioChange(ratioId)
  \/ HandleApplyCrop
  \/ HandleResetCrop
  \/ DebounceFires

SpecCrop == InitCrop /\ [][NextCrop]_vars

\* the crop widget while the selection moves between elements of all types
TargetLists ==
  { << Video("v1", 0, 100), Audio("a1", 0, 50, FALSE, 0, FALSE) >>,
    << Image("i1", 0, 100), Text("t1", 0, 100) >> }

InitTarget == InitWith(TargetLists) /\ currentTime = 0 /\ CropInit

NextTarget ==
  \/ \E id \in ElementIds \cup {"none"} : SelectElement(id)
  \/ \E r \in {0, 50} : SetCropX(r)
  \/ \E r \in {20, 100} : SetCropWidth(r)
  \/ HandleApplyCrop
  \/ HandleResetCrop
  \/ DebounceFires

SpecTarget == InitTarget /\ [][NextTarget]_vars

TypeOK ==
  /\ mounted \in BOOLEAN
  /\ currentTime \in TimeGrid
  /\ isPlaying \in BOOLEAN
  /\ volume \in Volumes
  /\ timers \in 0..(MaxTimers + 2)
  /\ DOMAIN audioRefs \subseteq ElementIds
  /\ \A id \in DOMAIN audioRefs : audioRefs[id].status \in PlayStates
  /\ vplayer.status \in PlayStates
  /\ videoElement \in ElementIds \cup {"none"}
  /\ sinceWrite \in {"none", "timed", "untimed"}
  /\ edited \in BOOLEAN

\* ================================================================ claims
ActiveAudioIds ==
  { elements[i].id : i \in { k \in 1..Len(elements) :
        /\ elements[k].type = "audio"
        /\ elements[k].start <= currentTime
        /\ currentTime <= elements[k].end } }

\* C1: after every reconciliation pass the ids that have a live audio player
\* are exactly the ids of the audio elements whose closed window contains
\* currentTime.
C1_SessionsMatchActive == Idle => DOMAIN audioRefs = ActiveAudioIds

C1_Witness ==
  /\ Idle
  /\ Len(elements) = 3
  /\ currentTime = 60
  /\ DOMAIN audioRefs = {"a2"}

\* C2: the selector yields the first element in list order that is a video
\* whose window contains currentTime (none if there is none), and as audio
\* exactly the audio elements whose window contains currentTime.
C2_SelectorCorrect ==
  Idle =>
    LET hit(i) == /\ elements[i].type = "video"
                  /\ elements[i].start <= currentTime
                  /\ currentTime <= elements[i].end
        hits == { i \in 1..Len(elements) : hit(i) }
    IN  /\ (videoElement = "none") <=> (hits = {})
        /\ hits # {} =>
             \E i \in hits : /\ elements[i].id = videoElement
                             /\ \A j \in hits : i <= j
        /\ { activeRef[k].id : k \in 1..Len(activeRef) } = ActiveAudioIds
        /\ Len(activeRef) = Cardinality(ActiveAudioIds)

C2_Witness ==
  /\ Idle
  /\ Len(elements) = 3
  /\ elements[1].id = "v2" /\ elements[2].id = "v1"
  /\ currentTime = 40
  /\ videoElement = "v2"
  /\ Len(activeRef) = 1

\* C3: after every reaction every live audio session whose player has not
\* failed to start is playing if and only if isPlaying is true.
C3_SessionsFollowTransport ==
  Idle =>
    \A id \in DOMAIN audioRefs :
      audioRefs[id].status # "failed" =>
        ((audioRefs[id].status \in {"starting", "playing"}) <=> isPlaying)

C3_Witness ==
  /\ Idle
  /\ isPlaying
  /\ DOMAIN audioRefs = {"a1", "a2"}
  /\ audioRefs["a1"].status = "playing"
  /\ audioRefs["a2"].status = "starting"

\* a re-render (not the mount) in which the rendered clock time changed while
\* a video is bound
ClockChangeRender ==
  /\ Dirty
  /\ snap'.currentTime # snap.currentTime
  /\ videoElement' # "none"

\* the video player's time when the pass starts (a node mounted by this pass
\* starts at 0)
PlayerTimeBefore == IF videoElement # "none" THEN vplayer.time ELSE 0

\* C4 as stated: on every clock-time change while a video is bound, a player
\* time within 0.2 s of currentTime is not written, and one further away is
\* written exactly once in that reaction and equals currentTime afterwards.
C4_OneWritePerClockChange ==
  [][ ClockChangeRender =>
        IF Abs(PlayerTimeBefore - snap'.currentTime) <= 2
        THEN vwrites' = 0 /\ vplayer'.time = PlayerTimeBefore
        ELSE vwrites' = 1 /\ vplayer'.time = snap'.currentTime ]_vars

\* C4 amended: the same, except that a pass which also performs an implicit
\* restart writes 0 first; the drift rule then applies to the player at 0.
C4_DriftCorrection ==
  [][ ClockChangeRender =>
        LET restarted == calls'.tu > calls.tu
            base  == IF restarted THEN 0 ELSE PlayerTimeBefore
            extra == IF restarted THEN 1 ELSE 0
        IN  IF Abs(base - snap'.currentTime) <= 2
            THEN vwrites' = extra /\ vplayer'.time = base
            ELSE vwrites' = extra + 1 /\ vplayer'.time = snap'.currentTime ]_vars

C4_Witness ==
  /\ Idle
  /\ videoElement # "none"
  /\ vwrites = 1
  /\ sinceWrite = "timed"
  /\ currentTime = 99
  /\ vplayer.time = 99

\* C5: a time report arriving less than the window length after the most
\* recent forced write of the player's time is never forwarded to the clock.
C5_NoForwardInWindow ==
  [][ (TimeUpdateEvent /\ calls'.tu > 0) => sinceWrite = "none" ]_vars

\* C6: while a video is bound and no suppression window is open, each time
\* report of the player results in one onTimeUpdate request.
C6_ReportForwarded ==
  [][ (TimeUpdateEvent /\ sinceWrite = "none" /\ ~blocker) => calls'.tu = 1 ]_vars

\* C7: whenever isPlaying becomes true while the binder is in Ended, or while
\* currentTime >= duration - 0.1, the reaction requests clock time 0 and the
\* player is at 0 when it is resumed.
C7_ImplicitRestart ==
  [][ ( /\ Dirty
        /\ ~snap.isPlaying /\ isPlaying
        /\ videoElement # "none" /\ videoElement' # "none"
        /\ (snap.videoEnded \/ snap.currentTime >= duration - 1) )
      => \/ calls'.restart > 0
         \/ (calls'.tu > calls.tu /\ currentTime' = 0 /\ vplayer'.time = 0) ]_vars

\* C8: each media-end event of the bound video player moves the binder to Ended
\* and issues exactly one onPause request.
C8_EndedPausesOnce ==
  [][ VideoEndedEvent => (videoEnded' /\ calls'.pause = 1) ]_vars

ContentMuted(id) ==
  \E i \in 1..Len(elements) : elements[i].id = id /\ elements[i].muted

\* C9: a session created for a newly active audio element is muted from its
\* creation exactly when the engine is muted or its content.muted is true.
C9_MutedAtCreation ==
  [][ (Dirty \/ ~mounted) =>
        \A id \in (DOMAIN audioRefs') \ (DOMAIN audioRefs) :
          audioRefs'[id].muted = (isMuted \/ ContentMuted(id)) ]_vars

\* C10: a start failure of one audio session's player leaves the session in
\* the pool, changes no other session, the video player or the clock, and
\* issues no request; and the other sessions still follow the transport.
C10_StartFailureContained ==
  /\ [][ \A id \in ElementIds :
           AudioStartFailed(id) =>
             /\ id \in DOMAIN audioRefs'
             /\ DOMAIN audioRefs' = DOMAIN audioRefs
             /\ \A o \in DOMAIN audioRefs : o # id => audioRefs'[o] = audioRefs[o]
             /\ audioRefs'[id].volume = audioRefs[id].volume
             /\ audioRefs'[id].muted = audioRefs[id].muted
             /\ vplayer' = vplayer /\ videoEnded' = videoEnded
             /\ isPlaying' = isPlaying /\ currentTime' = currentTime
             /\ calls' = NoCalls ]_vars
  /\ [](Idle /\ isPlaying =>
          \A o \in DOMAIN audioRefs :
            audioRefs[o].status \in {"starting", "playing", "failed"})

C10_Witness ==
  /\ Idle
  /\ isPlaying
  /\ DOMAIN audioRefs = {"a1", "a2"}
  /\ audioRefs["a1"].status = "failed"
  /\ audioRefs["a2"].status = "playing"
  /\ calls = NoCalls

\* C11: a start failure of the video player issues no pause request, leaves
\* isPlaying and every audio session as they are, and the reaction to it does
\* not stop an audio session that is playing.
C11_VideoFailureIsolated ==
  /\ [][ VideoStartFailed =>
           /\ isPlaying' = isPlaying
           /\ calls'.pause = 0
           /\ audioRefs' = audioRefs ]_vars
  /\ [][ (Dirty /\ vplayer.status = "failed") =>
           \A id \in (DOMAIN audioRefs) \cap (DOMAIN audioRefs') :
             audioRefs[id].status = "playing" =>
               audioRefs'[id].status = "playing" ]_vars

\* C12: a player that failed to start is started again only by a render pass
\* in which isPlaying went from false to true.
C12_RetryOnlyOnPlay ==
  [][ ( /\ Dirty
        /\ \/ \E id \in (DOMAIN audioRefs) \cap (DOMAIN audioRefs') :
                /\ audioRefs[id].status = "failed"
                /\ audioRefs'[id].status = "starting"
           \/ /\ videoElement # "none" /\ videoElement' # "none"
              /\ vplayer.status = "failed"
              /\ vplayer'.status = "starting" )
      => (~snap.isPlaying /\ isPlaying) ]_vars

InRange(v, lo, hi) == FracLeq(Whole(lo), v) /\ FracLeq(v, Whole(hi))

\* width / height = r for the ratio with this id
HasRatio(crop, ratioId) == crop.width = TimesRatio(crop.height, ratioId)

\* C13: after a width or height edit made while a ratio r is locked the crop
\* has width / height = r and both width and height lie in [20, 100].
C13_RatioLockKept ==
  [][ ( /\ selectedAspectRatio # "freeform"
        /\ \E r \in SizeRequests : r >= 20 /\ r <= 100
                                   /\ (SetCropWidth(r) \/ SetCropHeight(r)) )
      => /\ HasRatio(CurrentCrop', selectedAspectRatio)
         /\ InRange(cropWidth', 20, 100)
         /\ InRange(cropHeight', 20, 100) ]_vars

\* C14: selecting a locked ratio r while the width lies in [20, 100] gives a
\* crop with width / height = r whose width and height lie in [20, 100].
C14_RatioSelectionInBounds ==
  [][ \A ratioId \in RatioIds \ {"freeform"} :
        (HandleAspectRatioChange(ratioId) /\ InRange(cropWidth, 20, 100))
        => /\ HasRatio(CurrentCrop', ratioId)
           /\ InRange(cropWidth', 20, 100)
           /\ InRange(cropHeight', 20, 100) ]_vars

\* the edited field holds the request clamped to [lo, hi]
ClampedTo(v, req, lo, hi) ==
  v = Whole(IF req < lo THEN lo ELSE IF req > hi THEN hi ELSE req)

CropInBounds(crop) ==
  /\ InRange(crop.x, 0, 50) /\ InRange(crop.y, 0, 50)
  /\ InRange(crop.width, 20, 100) /\ InRange(crop.height, 20, 100)

\* in freeform mode an edit changes only the edited field and stores the
\* request clamped to the field's bound
FreeformEditClamps ==
  \A r \in PositionRequests \cup EdgeSizeRequests :
    /\ SetCropX(r) =>
         /\ ClampedTo(cropX', r, 0, 50)
         /\ CurrentCrop' = [CurrentCrop EXCEPT !.x = cropX']
    /\ SetCropY(r) =>
         /\ ClampedTo(cropY', r, 0, 50)
         /\ CurrentCrop' = [CurrentCrop EXCEPT !.y = cropY']
    /\ SetCropWidth(r) =>
         /\ ClampedTo(cropWidth', r, 20, 100)
         /\ CurrentCrop' = [CurrentCrop EXCEPT !.width = cropWidth']
    /\ SetCropHeight(r) =>
         /\ ClampedTo(cropHeight', r, 20, 100)
         /\ CurrentCrop' = [CurrentCrop EXCEPT !.height = cropHeight']

\* C15: in freeform mode an edit changes only the edited field and stores the
\* request clamped to the field's bound, and no value outside its bound is
\* stored or passed to onCropApply.
C15_FreeformClamped ==
  /\ [][ selectedAspectRatio = "freeform" => FreeformEditClamps ]_vars
  /\ [](selectedAspectRatio = "freeform" =>
          /\ CropInBounds(CurrentCrop)
          /\ \A k \in 1..Len(applied) : CropInBounds(applied[k].crop))

\* C16: every crop passed to onCropApply satisfies 0 <= x, 0 <= y,
\* x + width <= 100 and y + height <= 100.
C16_AppliedCropInsideSource ==
  \A k \in 1..Len(applied) :
    /\ FracLeq(Whole(0), applied[k].crop.x)
    /\ FracLeq(Whole(0), applied[k].crop.y)
    /\ FracLeq(FracSum(applied[k].crop.x, applied[k].crop.width), Whole(100))
    /\ FracLeq(FracSum(applied[k].crop.y, applied[k].crop.height), Whole(100))

\* C17: onCropApply is never invoked with the id of an element that is not a
\* video or an image.
C17_OnlyVideoOrImageCropped ==
  \A k \in 1..Len(applied) :
    Croppable(SelectedType(elements, applied[k].id))

\* C18: on a clock tick a live audio session's player is seeked if and only
\* if the tick is more than 0.1 s away from the previous tick and the player
\* is more than 0.2 s away from max(0, currentTime - start); a seeked player
\* is at that local time, any other keeps its position, and the remembered
\* previous time becomes currentTime on every tick.
C18_AudioSeekRule ==
  [][ (Dirty /\ snap'.currentTime # snap.currentTime) =>
        /\ lastTimeRef' = snap'.currentTime
        /\ \A id \in (DOMAIN audioRefs) \cap (DOMAIN audioRefs') :
             LET local == IF snap'.currentTime >= ElementOf(elements, id).start
                          THEN snap'.currentTime - ElementOf(elements, id).start
                          ELSE 0
                 tick  == snap'.currentTime - snap.currentTime
                 drift == audioRefs[id].time - local
                 seek  == /\ (tick > 1 \/ tick < -1)
                          /\ (drift > 2 \/ drift < -2)
             IN  /\ (id \in audioOps'.seeked) <=> seek
                 /\ audioRefs'[id].time =
                      IF seek THEN local ELSE audioRefs[id].time ]_vars

C18_Witness ==
  /\ Idle
  /\ ~isPlaying
  /\ currentTime = 40 /\ lastTimeRef = 40
  /\ audioOps.seeked = {"a1"}
  /\ audioRefs["a1"].time = 40

\* C19: a session created for a newly active audio element starts at local
\* time max(0, currentTime - element.start) of its own element.
C19_CreatedAtLocalTime ==
  [][ (Dirty \/ ~mounted) =>
        \A id \in (DOMAIN audioRefs') \ (DOMAIN audioRefs) :
          /\ id \in audioOps'.created
          /\ audioRefs'[id].time =
               IF snap'.currentTime >= ElementOf(elements, id).start
               THEN snap'.currentTime - ElementOf(elements, id).start
               ELSE 0 ]_vars

\* audio windows [0,5] and [3,8], clock scrubbed to 4: two sessions, local
\* times 4 and 1
C19_Witness ==
  /\ Idle
  /\ currentTime = 40
  /\ audioOps.created = {"a2"}
  /\ DOMAIN audioRefs = {"a1", "a2"}
  /\ audioRefs["a1"].time = 40
  /\ audioRefs["a2"].time = 10

\* C20: running the create/destroy reconciliation again with unchanged
\* elements, currentTime, isPlaying and volume constructs no player, destroys
\* none and leaves every session as it is.
C20_ReconcileIdempotent ==
  Idle =>
    LET active == ActiveAudioElements(elements, currentTime)
    IN  /\ CreatedIds(audioRefs, active) = {}
        /\ DestroyedIds(audioRefs, active) = {}
        /\ CleanupSessions(CreateSessions(audioRefs, active, currentTime,
                                          volume, isPlaying), active)
             = audioRefs

C20_Witness ==
  /\ Idle
  /\ isPlaying
  /\ volume = 50
  /\ DOMAIN audioRefs = {"a1", "a2"}
  /\ audioRefs["a1"].status = "playing"
  /\ audioRefs["a2"].status = "playing"
  /\ audioRefs["a2"].time > 10

\* what handling a waiting or playing event must leave alone
BufferingFrame ==
  /\ calls' = NoCalls
  /\ videoEnded' = videoEnded
  /\ audioRefs' = audioRefs
  /\ isPlaying' = isPlaying
  /\ currentTime' = currentTime
  /\ vplayer' = vplayer

\* C21: a waiting event of the video player sets the buffering flag and a
\* playing event clears it, and handling either issues no request, keeps the
\* Ended flag and touches no audio session.
C21_BufferingFlagOnly ==
  [][ /\ WaitingEvent => (isBuffering' /\ BufferingFrame)
      /\ PlayingEvent => (~isBuffering' /\ BufferingFrame) ]_vars

\* C21, the frame alone: handling a waiting or playing event changes nothing
\* but the buffering flag
BufferingFrameKept ==
  [][ (WaitingEvent \/ PlayingEvent) => BufferingFrame ]_vars

\* C21 on a node that carries the listeners
BufferingWithListeners ==
  [][ listeners => /\ WaitingEvent => isBuffering'
                   /\ PlayingEvent => ~isBuffering' ]_vars

\* C22: while the clock is paused, after every tick every live audio
\* session's player is within 0.2 s of max(0, currentTime - element.start).
C22_PausedScrubInSync ==
  (Idle /\ ~isPlaying) =>
    \A id \in DOMAIN audioRefs :
      LET local == IF currentTime >= ElementOf(elements, id).start
                   THEN currentTime - ElementOf(elements, id).start
                   ELSE 0
      IN  /\ audioRefs[id].time - local <= 2
          /\ local - audioRefs[id].time <= 2

\* C23: after every reaction every live audio session's volume is
\* (content.volume if defined, else 1.0) * (engine volume / 100).
C23_SessionVolume ==
  Idle =>
    \A id \in DOMAIN audioRefs :
      LET el == ElementOf(elements, id)
      IN  audioRefs[id].volume * 100 =
            (IF el.hasVolume THEN el.volume ELSE 100) * volume

\* C24: once every pending one-shot timer has fired the suppression flag is
\* clear, and the time report that follows a pass with forced writes whose
\* timers have all fired is forwarded to the clock.
C24_SuppressionEnds ==
  /\ [](timers = 0 => ~blocker)
  /\ [][ (TimeUpdateEvent /\ vwrites > 0 /\ timers = 0) =>
           calls'.tu = 1 ]_vars

\* C24, the flag alone: with no timer pending the suppression flag is clear
SuppressionFlagClears == timers = 0 => ~blocker

\* C24 on a node that carries the listeners: with no timer pending the time
\* report is forwarded
ForwardedWithListeners ==
  [][ (TimeUpdateEvent /\ timers = 0 /\ listeners) => calls'.tu = 1 ]_vars


\* C25: a selection change issues no onCropApply request and changes no
\* element's crop, and while no crop field was edited, no ratio selected and
\* neither apply nor reset pressed since the last selection change, the
\* debounce timer issues none either.
C25_SelectionAppliesNothing ==
  [][ /\ (\E id \in ElementIds \cup {"none"} : SelectElement(id)) =>
           (applied' = << >> /\ contentCrop' = contentCrop)
      /\ (DebounceFires /\ ~edited) =>
           (applied' = << >> /\ contentCrop' = contentCrop) ]_vars

====
